---------------------------- MODULE Spec2Model ----------------------------
(***************************************************************************)
(* Model of app.py: the conversion pipeline convert_file_stream (staging,  *)
(* primary extractor, PDF fallback, re-wrapping except clause, cleanup in  *)
(* finally) and the batch loop of main with its size-reduction metric.     *)
(*                                                                         *)
(* Text is a sequence of one-character strings.  An exception is a record  *)
(* [type, msg] whose msg is the sequence of the parts of its message, the  *)
(* outermost prefix first.  Extractors raise subclasses of Exception;     *)
(* os.path.exists and os.remove do not fail, and nothing but the pipeline  *)
(* touches the working directory while a batch runs.                       *)
(***************************************************************************)
EXTENDS Integers, Sequences, FiniteSets, TLC

\* ---------------------------------------------------------------- bounds
MaxBatch == 2       \* longest batch of uploaded files
MaxLen == 2         \* longest text an extractor returns
MaxSize == 6        \* sizes 0..MaxSize are drawn for the metric

\* ------------------------------------------------------------- alphabets
Alphabet == {"a", " ", "e2"}            \* "e2" stands for a 2-byte character

Whitespace == {" ", "\n", "\t"}

ByteWidth(ch) == IF ch = "e2" THEN 2 ELSE 1

RECURSIVE Utf8Len(_)
Utf8Len(s) == IF s = <<>> THEN 0 ELSE ByteWidth(Head(s)) + Utf8Len(Tail(s))

RECURSIVE LStrip(_)
LStrip(s) ==
    IF s = <<>> THEN <<>>
    ELSE IF Head(s) \in Whitespace THEN LStrip(Tail(s)) ELSE s

RECURSIVE RStrip(_)
RStrip(s) ==
    IF s = <<>> THEN <<>>
    ELSE IF s[Len(s)] \in Whitespace THEN RStrip(SubSeq(s, 1, Len(s) - 1)) ELSE s

Strip(s) == RStrip(LStrip(s))

LowerChar(ch) ==
    CASE ch = "R" -> "r"
      [] ch = "P" -> "p"
      [] ch = "D" -> "d"
      [] ch = "F" -> "f"
      [] OTHER -> ch

Lower(s) == [i \in 1..Len(s) |-> LowerChar(s[i])]

EndsWith(s, suffix) ==
    /\ Len(s) >= Len(suffix)
    /\ SubSeq(s, Len(s) - Len(suffix) + 1, Len(s)) = suffix

TextsUpTo(n) == UNION {[1..k -> Alphabet] : k \in 0..n}

Texts == TextsUpTo(MaxLen)

Causes == {"boom"}

\* -------------------------------------------------------------- filenames
ReportPdf == <<"r", ".", "p", "d", "f">>
ReportPDF == <<"R", ".", "P", "D", "F">>
DataXlsx == <<"d", ".", "x", "l", "s", "x">>

Names == {ReportPdf, ReportPDF, DataXlsx}

TempPrefix == <<"t", "e", "m", "p", "_">>

TempName(name) == TempPrefix \o name

TempPaths == {TempName(n) : n \in Names}

PdfSuffix == <<".", "p", "d", "f">>

FallbackEligibleCaseSensitive(path) == EndsWith(path, PdfSuffix)

FallbackEligibleAlways(path) == TRUE

FallbackEligible(path) == EndsWith(Lower(path), PdfSuffix)

\* ------------------------------------------------------------ exceptions
NoExc == [type |-> "None", msg |-> <<>>]

ValueError(msg) == [type |-> "ValueError", msg |-> msg]

OSError(cause) == [type |-> "OSError", msg |-> <<cause>>]

FallbackPrefix == "PDF Fallback failed: "
NoContentMsg == "Could not extract text content."
ConversionPrefix == "Conversion failed: "

FallbackFailed(cause) == ValueError(<<FallbackPrefix, cause>>)

NoContentExtracted == ValueError(<<NoContentMsg>>)

WrapKeepFallback(e) ==
    IF e.type = "ValueError" /\ Head(e.msg) = FallbackPrefix
    THEN e
    ELSE ValueError(<<ConversionPrefix>> \o e.msg)

ConversionFailed(e) == ValueError(<<ConversionPrefix>> \o e.msg)

\* ---------------------------------------------------------------- marker
Marker ==
    << "*", "*", "N", "o", "t", "e", ":", " ",
       "E", "x", "t", "r", "a", "c", "t", "e", "d", " ",
       "u", "s", "i", "n", "g", " ", "P", "D", "F", " ",
       "F", "a", "l", "l", "b", "a", "c", "k", "*", "*" >>

PrimaryReturnStripped(text) == Strip(text)

PrimaryReturn(text) == text

FallbackReturnBare(raw_text) == raw_text

FallbackReturn(raw_text) == Marker \o <<"\n", "\n">> \o raw_text

\* --------------------------------------------------------------- metrics
\* The reduction is a rational number, kept as numerator over denominator.
Rat(n, d) == [num |-> n, den |-> d]

ReductionSwapped(original, converted) ==
    IF original > 0
    THEN Rat((converted - original) * 100, original)
    ELSE Rat(0, 1)

Reduction(original, converted) ==
    IF original > 0
    THEN Rat((original - converted) * 100, original)
    ELSE Rat(0, 1)

Sizes == 0..MaxSize

SizeGrid == Sizes \cup {600, 1000}


\* ----------------------------------------------------------------- state
VARIABLES
    uploaded_files,   \* main: the batch, a sequence of file names in upload order
    idx,              \* main: position of the for loop in uploaded_files
    pc,               \* control point of main / convert_file_stream
    temp_filename,    \* convert_file_stream: the staging path of this call
    fs,               \* working directory: what each staging path holds
    fsBefore,         \* working directory when the current call was entered
    stagedOk,         \* the with-block of lines 33-34 completed
    result,           \* outcome of md_engine.convert in this call
    raw,              \* outcome of extract_text in this call
    retval,           \* text returned by this call (<<>> when none)
    outcome,          \* "none", "return" or "raise": how this call ended
    exc,              \* exception in flight / raised by this call
    calls,            \* extractors invoked in this call, in order
    creates,          \* staged files this call opened for writing
    removes,          \* os.remove calls of this call
    attempted,        \* names handed to convert_file_stream so far, in order
    original_size,    \* main: uploaded_file.size
    converted_size,   \* main: len(converted_text.encode('utf-8'))
    reduction,        \* main: the reduction percentage
    shown             \* main: what the expander shows for the last document

vars == << uploaded_files, idx, pc, temp_filename, fs, fsBefore, stagedOk,
           result, raw, retval, outcome, exc, calls, creates, removes,
           attempted, original_size, converted_size, reduction, shown >>

callVars == << temp_filename, fsBefore, stagedOk, result, raw, retval,
               outcome, exc, calls, creates, removes >>

metricVars == << original_size, converted_size, reduction >>

FileStates == {"absent", "other", "partial", "upload"}

NoResult == [kind |-> "none", text |-> <<>>, cause |-> ""]

Raised(cause) == [kind |-> "raise", text |-> <<>>, cause |-> cause]

Returned(text) == [kind |-> "return", text |-> text, cause |-> ""]

ExtractorOutcomes == {Raised(c) : c \in Causes} \cup {Returned(t) : t \in Texts}

Batches == UNION {[1..k -> Names] : k \in 1..MaxBatch}

\* A directory that holds no staging path, or one file someone else put there.
InitialDirs ==
    {[p \in TempPaths |-> "absent"]}
        \cup {[p \in TempPaths |-> IF p = q THEN "other" ELSE "absent"] : q \in TempPaths}

Exists(dir, path) == dir[path] # "absent"

\* No call of convert_file_stream is in progress: its frame does not exist.
IdleCall ==
    /\ temp_filename = <<>>
    /\ fsBefore = fs
    /\ stagedOk = FALSE
    /\ result = NoResult
    /\ raw = NoResult
    /\ retval = <<>>
    /\ outcome = "none"
    /\ exc = NoExc
    /\ calls = <<>>
    /\ creates = 0
    /\ removes = 0

Init ==
    /\ uploaded_files \in Batches
    /\ idx = 1
    /\ pc = "main"
    /\ fs \in InitialDirs
    /\ IdleCall
    /\ attempted = <<>>
    /\ original_size = 0
    /\ converted_size = 0
    /\ reduction = Rat(0, 1)
    /\ shown = "none"

\* ------------------------------------------------- convert_file_stream
\* main, lines 82-88: the loop binds the next uploaded file, opens its
\* expander and hands it to the converter; line 31 builds the staging path.
\* The locals main computed for the previous document are dead from here on
\* and are cleared.
Call ==
    /\ pc = "main"
    /\ idx <= Len(uploaded_files)
    /\ temp_filename' = TempName(uploaded_files[idx])
    /\ attempted' = Append(attempted, uploaded_files[idx])
    /\ fsBefore' = fs
    /\ UNCHANGED << stagedOk, result, raw, retval, outcome, exc, calls,
                    creates, removes >>
    /\ original_size' = 0
    /\ converted_size' = 0
    /\ reduction' = Rat(0, 1)
    /\ shown' = "none"
    /\ pc' = "stage"
    /\ UNCHANGED << uploaded_files, idx, fs >>

\* Lines 33-34 succeed: the file is opened for writing and the bytes written.
StageOk ==
    /\ pc = "stage"
    /\ fs' = [fs EXCEPT ![temp_filename] = "upload"]
    /\ creates' = creates + 1
    /\ stagedOk' = TRUE
    /\ pc' = "primary"
    /\ UNCHANGED << uploaded_files, idx, temp_filename, fsBefore, result, raw,
                    retval, outcome, exc, calls, removes, attempted,
                    metricVars, shown >>

\* Line 33: open() raises; nothing is created.  The with-block is outside the
\* try of line 36, so the exception leaves the function as it is.
StageOpenFails ==
    /\ pc = "stage"
    /\ \E c \in Causes : exc' = OSError(c)
    /\ outcome' = "raise"
    /\ pc' = "caller"
    /\ UNCHANGED << uploaded_files, idx, temp_filename, fs, fsBefore, stagedOk,
                    result, raw, retval, calls, creates, removes, attempted,
                    metricVars, shown >>

\* Line 34: open() created (or truncated) the file and the write raises.  The
\* with-block closes the file; neither except nor finally of the try cover it.
StageWriteFails ==
    /\ pc = "stage"
    /\ fs' = [fs EXCEPT ![temp_filename] = "partial"]
    /\ creates' = creates + 1
    /\ \E c \in Causes : exc' = OSError(c)
    /\ outcome' = "raise"
    /\ pc' = "caller"
    /\ UNCHANGED << uploaded_files, idx, temp_filename, fsBefore, stagedOk,
                    result, raw, retval, calls, removes, attempted,
                    metricVars, shown >>

\* Lines 38-43: md_engine.convert; a non-blank result is returned, an
\* exception is swallowed, a blank result falls through.
Primary ==
    /\ pc = "primary"
    /\ \E r \in ExtractorOutcomes :
        /\ result' = r
        /\ IF r.kind = "return" /\ Strip(r.text) # <<>>
           THEN /\ retval' = PrimaryReturn(r.text)
                /\ outcome' = "return"
                /\ pc' = "finally"
           ELSE /\ pc' = "fallback"
                /\ UNCHANGED << retval, outcome >>
    /\ calls' = Append(calls, "md_engine.convert")
    /\ UNCHANGED << uploaded_files, idx, temp_filename, fs, fsBefore, stagedOk,
                    raw, exc, creates, removes, attempted, metricVars, shown >>

\* Lines 46-52: the staging path ends in .pdf; extract_text runs.
Fallback ==
    /\ pc = "fallback"
    /\ FallbackEligible(temp_filename)
    /\ \E r \in ExtractorOutcomes :
        /\ raw' = r
        /\ CASE r.kind = "raise" ->
                  /\ exc' = FallbackFailed(r.cause)
                  /\ pc' = "except"
                  /\ UNCHANGED << retval, outcome >>
             [] r.kind = "return" /\ Strip(r.text) # <<>> ->
                  /\ retval' = FallbackReturn(r.text)
                  /\ outcome' = "return"
                  /\ pc' = "finally"
                  /\ UNCHANGED exc
             [] OTHER ->
                  /\ pc' = "nocontent"
                  /\ UNCHANGED << retval, outcome, exc >>
    /\ calls' = Append(calls, "extract_text")
    /\ UNCHANGED << uploaded_files, idx, temp_filename, fs, fsBefore, stagedOk,
                    result, creates, removes, attempted, metricVars, shown >>

\* Line 46, condition false: no fallback for this name.
SkipFallback ==
    /\ pc = "fallback"
    /\ ~FallbackEligible(temp_filename)
    /\ pc' = "nocontent"
    /\ UNCHANGED << uploaded_files, idx, temp_filename, fs, fsBefore, stagedOk,
                    result, raw, retval, outcome, exc, calls, creates, removes,
                    attempted, metricVars, shown >>

\* Line 54.
RaiseNoContent ==
    /\ pc = "nocontent"
    /\ exc' = NoContentExtracted
    /\ pc' = "except"
    /\ UNCHANGED << uploaded_files, idx, temp_filename, fs, fsBefore, stagedOk,
                    result, raw, retval, outcome, calls, creates, removes,
                    attempted, metricVars, shown >>

\* Lines 56-57: every Exception raised in the try block is caught and a new
\* ValueError raised from its message.
Except ==
    /\ pc = "except"
    /\ exc' = ConversionFailed(exc)
    /\ outcome' = "raise"
    /\ pc' = "finally"
    /\ UNCHANGED << uploaded_files, idx, temp_filename, fs, fsBefore, stagedOk,
                    result, raw, retval, calls, creates, removes, attempted,
                    metricVars, shown >>

RemoveIfExists(dir, path) ==
    IF Exists(dir, path) THEN [dir EXCEPT ![path] = "absent"] ELSE dir

\* Lines 59-61, then the return or raise reaches the caller.
Finally ==
    /\ pc = "finally"
    /\ fs' = RemoveIfExists(fs, temp_filename)
    /\ removes' = IF fs' # fs THEN removes + 1 ELSE removes
    /\ pc' = "caller"
    /\ UNCHANGED << uploaded_files, idx, temp_filename, fsBefore, stagedOk,
                    result, raw, retval, outcome, exc, calls, creates,
                    attempted, metricVars, shown >>

\* ------------------------------------------------------------------ main
\* The call has returned or raised: its locals no longer exist.
DropFrame ==
    /\ temp_filename' = <<>>
    /\ fsBefore' = fs
    /\ stagedOk' = FALSE
    /\ result' = NoResult
    /\ raw' = NoResult
    /\ retval' = <<>>
    /\ outcome' = "none"
    /\ exc' = NoExc
    /\ calls' = <<>>
    /\ creates' = 0
    /\ removes' = 0

\* Lines 91-152: the conversion returned; sizes, reduction and the highlight.
\* The frame of the finished call is gone.
MainSuccess ==
    /\ pc = "caller"
    /\ outcome = "return"
    /\ \E size \in Sizes :
        /\ original_size' = size
        /\ converted_size' = Utf8Len(retval)
        /\ reduction' = Reduction(size, Utf8Len(retval))
    /\ shown' = IF reduction'.num > 0 THEN "success" ELSE "info"
    /\ idx' = idx + 1
    /\ pc' = "main"
    /\ DropFrame
    /\ UNCHANGED << uploaded_files, fs, attempted >>

\* Lines 154-156: any Exception of the document is reported and logged.
\* The frame of the finished call is gone.
MainExcept ==
    /\ pc = "caller"
    /\ outcome = "raise"
    /\ shown' = "error"
    /\ idx' = idx + 1
    /\ pc' = "main"
    /\ DropFrame
    /\ UNCHANGED << uploaded_files, fs, attempted, metricVars >>

\* Line 82: the loop is exhausted.
MainDone ==
    /\ pc = "main"
    /\ idx > Len(uploaded_files)
    /\ pc' = "done"
    /\ UNCHANGED << uploaded_files, idx, fs, callVars, attempted, metricVars, shown >>

Next ==
    \/ Call
    \/ StageOk
    \/ StageOpenFails
    \/ StageWriteFails
    \/ Primary
    \/ Fallback
    \/ SkipFallback
    \/ RaiseNoContent
    \/ Except
    \/ Finally
    \/ MainSuccess
    \/ MainExcept
    \/ MainDone

Spec == Init /\ [][Next]_vars

\* ------------------------------------------- the metric as a pure function
\* Lines 96-99 applied to sizes drawn from SizeGrid, outside any batch.
InitMetrics ==
    /\ uploaded_files = <<ReportPdf>>
    /\ idx = 1
    /\ pc = "metrics"
    /\ fs = [p \in TempPaths |-> "absent"]
    /\ IdleCall
    /\ attempted = <<>>
    /\ original_size \in SizeGrid
    /\ converted_size \in SizeGrid
    /\ reduction = Rat(0, 1)
    /\ shown = "none"

ComputeReduction ==
    /\ pc = "metrics"
    /\ reduction' = Reduction(original_size, converted_size)
    /\ shown' = IF reduction'.num > 0 THEN "success" ELSE "info"
    /\ pc' = "metrics_done"
    /\ UNCHANGED << uploaded_files, idx, fs, callVars, attempted,
                    original_size, converted_size >>

NextMetrics == ComputeReduction

SpecMetrics == InitMetrics /\ [][NextMetrics]_vars

TypeOK ==
    /\ uploaded_files \in Batches
    /\ idx \in 1..(MaxBatch + 1)
    /\ pc \in {"main", "stage", "primary", "fallback", "nocontent", "except",
               "finally", "caller", "done", "metrics", "metrics_done"}
    /\ fs \in [TempPaths -> FileStates]
    /\ outcome \in {"none", "return", "raise"}
    /\ creates \in 0..1
    /\ removes \in 0..1


\* ---------------------------------------------------------------- claims
\* The document whose call is in progress or has just ended.
CurrentName == uploaded_files[idx]

\* A name with the extension .pdf in any letter case.
PdfInput(name) == EndsWith(Lower(name), PdfSuffix)

Blank(text) == Strip(text) = <<>>

PrimaryMissed == result.kind = "raise" \/ (result.kind = "return" /\ Blank(result.text))

Count(seq, x) == Cardinality({i \in 1..Len(seq) : seq[i] = x})

\* Staging paths that hold bytes written by the pipeline.
StagedFiles == {p \in TempPaths : fs[p] \in {"upload", "partial"}}

WrappedNoContent == ValueError(<<ConversionPrefix, NoContentMsg>>)

WrappedFallback(cause) == ValueError(<<ConversionPrefix, FallbackPrefix, cause>>)

\* C1: on every exit path of a call that got as far as opening the staged
\* file (success, fallback success, fallback exception, no content, a failure
\* while writing the bytes) exactly one staged file was created, it no longer
\* exists when the call returns or raises, and it was deleted exactly once.
C1_StagedFileGoneOnEveryExit ==
    (pc = "caller" /\ creates > 0) =>
        /\ creates = 1
        /\ removes = 1
        /\ ~Exists(fs, temp_filename)

\* C2: whenever the Structured Extractor returned content that is not blank,
\* the call returns exactly that content, untrimmed and without the marker,
\* and the fallback was not used.
C2_PrimaryContentReturnedAsIs ==
    (pc = "caller" /\ result.kind = "return" /\ ~Blank(result.text)) =>
        /\ outcome = "return"
        /\ retval = result.text
        /\ calls = <<"md_engine.convert">>
        /\ exc = NoExc

C2_Witness ==
    /\ pc = "caller"
    /\ CurrentName = DataXlsx
    /\ result = Returned(<<" ", "a">>)
    /\ outcome = "return"
    /\ retval = <<" ", "a">>

\* C3: for a .pdf name, when the Structured Extractor raised or returned blank
\* content and the Raw Text Extractor returned content that is not blank, the
\* call returns the marker, two newlines and the raw text unchanged.
C3_FallbackTextIsMarkerPlusRaw ==
    (/\ pc = "caller"
     /\ PdfInput(CurrentName)
     /\ PrimaryMissed
     /\ raw.kind = "return"
     /\ ~Blank(raw.text)) =>
        /\ outcome = "return"
        /\ retval = Marker \o <<"\n", "\n">> \o raw.text
        /\ exc = NoExc

C3_Witness ==
    /\ pc = "caller"
    /\ CurrentName = ReportPdf
    /\ result.kind = "raise"
    /\ raw = Returned(<<"a", " ">>)
    /\ outcome = "return"
    /\ Len(retval) = Len(Marker) + 4
    /\ SubSeq(retval, Len(Marker) + 1, Len(retval)) = <<"\n", "\n", "a", " ">>

\* C4: for a name that is not a .pdf name, when the Structured Extractor
\* raised or returned blank content, the call raises the error whose message
\* is the no-content message (under the generic prefix), the Raw Text
\* Extractor was not invoked and no text is returned.
C4_NonPdfMissFailsNoContent ==
    (pc = "caller" /\ ~PdfInput(CurrentName) /\ PrimaryMissed) =>
        /\ outcome = "raise"
        /\ exc = WrappedNoContent
        /\ Count(calls, "extract_text") = 0
        /\ raw = NoResult
        /\ retval = <<>>

C4_Witness ==
    /\ pc = "caller"
    /\ CurrentName = DataXlsx
    /\ result.kind = "raise"
    /\ outcome = "raise"
    /\ exc = WrappedNoContent

\* C5 as stated: when the Raw Text Extractor raised, the error leaving the
\* call is the FallbackFailed error itself, not re-wrapped, and every other
\* exception raised in the try block leaves under the generic prefix.
C5_FallbackFailedRaisedAsIs ==
    (pc = "caller" /\ stagedOk /\ outcome = "raise") =>
        IF raw.kind = "raise"
        THEN exc = FallbackFailed(raw.cause)
        ELSE Head(exc.msg) = ConversionPrefix

\* C5 amended: every exception raised in the try block, FallbackFailed
\* included, leaves re-wrapped under the generic prefix; for FallbackFailed the
\* message keeps the fallback prefix and the extractor's cause nested in it.
C5_FallbackFailedIsRewrapped ==
    (pc = "caller" /\ stagedOk /\ outcome = "raise") =>
        IF raw.kind = "raise"
        THEN exc = WrappedFallback(raw.cause)
        ELSE exc = WrappedNoContent

C5_Witness ==
    /\ pc = "caller"
    /\ CurrentName = ReportPDF
    /\ raw = Raised("boom")
    /\ outcome = "raise"
    /\ exc = WrappedFallback("boom")

\* C6: every error that leaves a call is one the pipeline raised itself (a
\* ValueError under one of its messages); a staging failure never reaches the
\* caller as the underlying I/O exception.
C6_OnlyClassifiedErrorsEscape ==
    (pc = "caller" /\ outcome = "raise") =>
        /\ exc.type = "ValueError"
        /\ Head(exc.msg) \in {ConversionPrefix, FallbackPrefix, NoContentMsg}

\* C7: no failure aborts the batch, documents are attempted in upload order,
\* and a document's staged file is gone before the next document is staged,
\* so at most one staged file exists at any time.
C7_BatchIsolatedOneStagedFile ==
    /\ attempted = SubSeq(uploaded_files, 1, Len(attempted))
    /\ (pc = "done" => attempted = uploaded_files)
    /\ (pc = "stage" => StagedFiles = {})
    /\ Cardinality(StagedFiles) <= 1

\* C8: when a call has returned or raised, the working directory is what it
\* was when the call was entered, whatever it held then.
C8_DirectoryUnchangedByCall ==
    (pc = "caller") => fs = fsBefore

\* C9: the reduction is (original - converted) / original * 100 when
\* original > 0 and 0 when original = 0, with no division by zero; 1000 and
\* 600 give 40, and a larger converted size gives a negative value.
C9_ReductionFormula ==
    (pc = "metrics_done") =>
        /\ reduction.den > 0
        /\ (original_size > 0 =>
               reduction.num * original_size
                   = (original_size - converted_size) * 100 * reduction.den)
        /\ (original_size = 0 => reduction.num = 0)
        /\ ((original_size = 1000 /\ converted_size = 600) =>
               reduction.num = 40 * reduction.den)
        /\ ((original_size > 0 /\ converted_size > original_size) =>
               reduction.num < 0)

C9_Witness ==
    /\ pc = "metrics_done"
    /\ original_size = 1000
    /\ converted_size = 600
    /\ reduction.num = 40 * reduction.den

\* The extractor calls of a call, at any moment and when it has ended.
ExtractorSequencing ==
    /\ calls \in {<<>>, <<"md_engine.convert">>,
                  <<"md_engine.convert", "extract_text">>}
    /\ (pc = "caller" =>
          /\ (Count(calls, "extract_text") = 1
                <=> (PrimaryMissed /\ PdfInput(CurrentName)))
          /\ (result.kind = "raise" =>
                \/ raw.kind # "none"
                \/ exc = WrappedNoContent)
          /\ ((raw.kind = "return" /\ Blank(raw.text)) =>
                (outcome = "raise" /\ exc = WrappedNoContent)))

\* C10 as stated: in every call the Structured Extractor is invoked exactly
\* once and first, the Raw Text Extractor at most once and exactly when the
\* primary missed and the name is a .pdf name in any letter case; a primary
\* exception alone does not end the call; a blank fallback ends it with the
\* no-content failure.
C10_EveryCallInvokesPrimaryOnce ==
    /\ ExtractorSequencing
    /\ (pc = "caller" => Count(calls, "md_engine.convert") = 1)

\* C10 amended: the same, for every call whose staging succeeded.
C10_StagedCallInvokesPrimaryOnce ==
    /\ ExtractorSequencing
    /\ ((pc = "caller" /\ stagedOk) => Count(calls, "md_engine.convert") = 1)
    /\ ((pc = "caller" /\ ~stagedOk) => calls = <<>>)

C10_Witness ==
    /\ pc = "caller"
    /\ CurrentName = ReportPDF
    /\ result.kind = "raise"
    /\ calls = <<"md_engine.convert", "extract_text">>
    /\ raw = Returned(<<" ">>)
    /\ exc = WrappedNoContent

=============================================================================
